---- MODULE Spec2Model ----
(***************************************************************************)
(* A model of MidiFileStream (src/MidiFileStream.h, src/MidiFileStream.cpp):*)
(* the streaming Standard MIDI File reader.  The object's fields are the   *)
(* state; begin(), end(), openChunk(), readEvent() and the public read     *)
(* helpers are the actions.  The byte source (Arduino Stream) is external: *)
(* each call draws the values its read() calls will return from a bounded  *)
(* set of byte sequences.                                                  *)
(***************************************************************************)
EXTENDS Integers, Sequences, FiniteSets, TLC

(* ------------------------------------------------------------------ *)
(* Constants of MidiFileStream.h                                       *)
(* ------------------------------------------------------------------ *)
CT_UNK == 0
CT_END == 1
CT_MTHD == 100
CT_MTRK == 101

ET_UNK == 0
ET_NO_OP == 1
ET_END == 2
ET_SYSEX_F0 == 3
ET_SYSEX_ESC == 4
ET_SEQ_NUM == 5
ET_TEXT == 6
ET_COPYRIGHT == 7
ET_NAME == 8
ET_INSTRUMENT == 9
ET_LYRIC == 10
ET_MARKER == 11
ET_CUE == 12
ET_CHAN_PREFIX == 13
ET_END_TRACK == 14
ET_TEMPO == 15
ET_SMPTE_OFFSET == 16
ET_TIME_SIGN == 17
ET_KEY_SIGN == 18
ET_CHANNEL == 19

EV_BUFFER_SIZE == 141

(* Storage of the eventData union that the current call has not written. *)
Indet == -999999

VARIABLES
  build,            \* the target: "avr" (16-bit int) or "arm" (32-bit int); long is 32 bits on both
  _pStream,         \* TRUE when a byte source is attached, FALSE for the null pointer
  _bytesLeft,
  _format,
  _numTracks,
  _ticksPerBeat,
  _runningStatus,
  _eventType,
  _eventDeltaTicks,
  _eventData,       \* the union member the last call wrote, with the fields it wrote
  op,               \* the last operation called
  ret,              \* what it returned
  obs,              \* what the last call did: values read, bytes taken, buffer writes
  chunk,            \* the chunk header last read by openChunk(), and the reads made since
  prev,             \* history: the call before the last one, when the last one is a read
  source            \* the family of byte sources the run draws from

vars == <<build, _pStream, _bytesLeft, _format, _numTracks, _ticksPerBeat,
          _runningStatus, _eventType, _eventDeltaTicks, _eventData,
          op, ret, obs, chunk, prev, source>>

(* ------------------------------------------------------------------ *)
(* Machine arithmetic                                                   *)
(* ------------------------------------------------------------------ *)
Pow2(n) == 2 ^ n

(* long is 32 bits on every Arduino target. *)
LongBits == 32

IntBits == IF build = "avr" THEN 16 ELSE 32

(* (int) of a long that fits in 32 bits: the low IntBits bits, as a signed value. *)
ToInt(v) ==
  IF IntBits = 32 THEN v
  ELSE LET low == v % Pow2(IntBits)
       IN IF low >= Pow2(IntBits - 1) THEN low - Pow2(IntBits) ELSE low

(* Whether result <<= k is undefined on a long: result is negative, or   *)
(* the shifted value does not fit in an unsigned long.  A value that fits  *)
(* in an unsigned long but not in a long is converted to long, which the   *)
(* compilers of the Arduino targets do modulo 2^32.                        *)
ShlOverflows(v, k) == v < 0 \/ v >= Pow2(LongBits - k)

(* result <<= k on a long: the low 32 bits as a two's complement value.     *)
(* ub says how the build resolves an undefined shift: "wrap" does the same, *)
(* "mask" keeps the low 31 bits.                                            *)
ShlLong(v, k, ub) ==
  LET low == (v % Pow2(LongBits - 1 - k)) * Pow2(k)
      top == (v \div Pow2(LongBits - 1 - k)) % 2
  IN IF top = 1 /\ (ub = "wrap" \/ ~ShlOverflows(v, k))
     THEN (low - Pow2(LongBits - 2)) - Pow2(LongBits - 2)
     ELSE low

(* ------------------------------------------------------------------ *)
(* The eventData union                                                  *)
(* ------------------------------------------------------------------ *)
BufMembers == {"sysexF0", "sysexEsc", "text", "copyright", "name",
               "instrument", "lyric", "marker", "cue"}

Blank(member) ==
  CASE member \in BufMembers ->
         [member |-> member, length |-> Indet, bytes |-> <<>>]
    [] member = "seqNum" -> [member |-> member, number |-> Indet]
    [] member = "chanPrefix" -> [member |-> member, chan |-> Indet]
    [] member = "tempo" -> [member |-> member, uSecPerBeat |-> Indet]
    [] member = "smpteOffset" ->
         [member |-> member, hours |-> Indet, minutes |-> Indet,
          seconds |-> Indet, frames |-> Indet, f100ths |-> Indet]
    [] member = "timeSign" ->
         [member |-> member, numer |-> Indet, denom |-> Indet,
          metro |-> Indet, m32nds |-> Indet]
    [] member = "keySign" ->
         [member |-> member, numSharps |-> Indet, isMinor |-> Indet]
    [] member = "channel" ->
         [member |-> member, code |-> Indet, chan |-> Indet,
          param1 |-> Indet, param2 |-> Indet]
    [] OTHER -> [member |-> "none"]

(* The member of the union as the call has written it so far *)
Member(m, member) == IF m.ed.member = member THEN m.ed ELSE Blank(member)

(* _eventData.<member>.<field> = v *)
SetField(m, member, field, v) ==
  [m EXCEPT !.ed = [Member(m, member) EXCEPT ![field] = v]]

(* The bytes of a buffer after bytes[idx] = v *)
Stored(old, idx, v) ==
  IF idx < Len(old)
  THEN [old EXCEPT ![idx + 1] = v]
  ELSE old \o [i \in 1..(idx - Len(old)) |-> Indet] \o <<v>>

(* pBuffer[idx] = v, pBuffer being _eventData.<member>.bytes *)
BufWrite(m, member, idx, v) ==
  [m EXCEPT !.ed = [Member(m, member) EXCEPT !.bytes = Stored(@, idx, v)],
            !.wmax = IF idx > @ THEN idx ELSE @]

(* ------------------------------------------------------------------ *)
(* The object during a call                                             *)
(* ------------------------------------------------------------------ *)
(* The fields of the object, the values the byte source will return to *)
(* the read() calls of this call (-1 once inp is used up), and the log  *)
(* of the call: src the values read() returned, rd the values           *)
(* readChunkByte returned, taken the bytes obtained from the source,    *)
(* wmax the highest buffer index written, mark the length of rd after   *)
(* the delta-time, status the event's first byte, metaType and length   *)
(* the locals of readEvent, lmark the length of rd once length was      *)
(* decoded, sig the local of openChunk, ck* the chunk header read by    *)
(* this call, all the whole of what the source had to deliver.          *)
Obj(inp, ub) ==
  [ps |-> _pStream, bl |-> _bytesLeft, fmt |-> _format, nt |-> _numTracks,
   tpb |-> _ticksPerBeat, rs |-> _runningStatus, et |-> _eventType,
   dt |-> _eventDeltaTicks, ed |-> Blank("none"),
   inp |-> inp, all |-> inp, ub |-> ub, ubHit |-> FALSE,
   val |-> 0, src |-> <<>>, rd |-> <<>>, taken |-> 0, wmax |-> -1,
   mark |-> -1, status |-> -1, metaType |-> -1, length |-> -1, lmark |-> -1,
   sig |-> <<>>,
   ckBase |-> -1, ckOpen |-> FALSE, ckLen |-> <<>>]

(* _pStream->read() *)
StreamRead(m) ==
  IF m.inp = <<>>
  THEN [m EXCEPT !.val = -1, !.src = Append(@, -1)]
  ELSE [m EXCEPT !.val = Head(m.inp), !.inp = Tail(m.inp),
                 !.src = Append(@, Head(m.inp)),
                 !.taken = IF Head(m.inp) >= 0 THEN @ + 1 ELSE @]

(* The value readChunkByte returns, noted in the log of the call *)
Logged(s) == [s EXCEPT !.rd = Append(@, s.val)]

(* readChunkByte without the test of _bytesLeft *)
readChunkByteUnbounded(m) == Logged(StreamRead([m EXCEPT !.bl = @ - 1]))

(* MidiFileStream::readChunkByte *)
readChunkByte(m) ==
  IF m.bl <= 0
  THEN Logged([m EXCEPT !.val = -1])
  ELSE Logged(StreamRead([m EXCEPT !.bl = @ - 1]))

(* return -1 *)
Failed(m) == [m EXCEPT !.val = -1]

(* The shift one bit short *)
ShiftInShort(m, result, k, low) ==
  [m EXCEPT !.val = ShlLong(result, k - 1, m.ub) + low]

(* result <<= k; result |= low   (the low k bits of result are 0) *)
ShiftIn(m, result, k, low) ==
  [m EXCEPT !.val = ShlLong(result, k, m.ub) + low,
            !.ubHit = @ \/ ShlOverflows(result, k)]

(* MidiFileStream::readFixedLong: the for loop.  got(r) is the body     *)
(* after bint = readChunkByte(), again(s) the next iteration.            *)
RECURSIVE readFixedLongLoop(_, _, _, _)
readFixedLongLoop(m, i, numBytes, result) ==
  LET again(s) == readFixedLongLoop(s, i + 1, numBytes, s.val)
      got(r) == IF r.val < 0 THEN Failed(r)
                ELSE again(ShiftIn(r, result, 8, r.val))
  IN IF i >= numBytes
     THEN [m EXCEPT !.val = result]
     ELSE got(readChunkByte(m))

(* MidiFileStream::readFixedLong *)
readFixedLong(m, numBytes) == readFixedLongLoop(m, 0, numBytes, 0)

(* The guard one byte too early *)
VarLongTooLongEarly(numBytes) == numBytes > 2

(* The guard of readVariableLong's loop: if (numBytes > 4) return -1 *)
VarLongTooLong(numBytes) == numBytes > 4

(* MidiFileStream::readVariableLong: the while loop.  got(r) is the     *)
(* body after bint = readChunkByte(), again(s, anotherByte) the test of  *)
(* the loop after result was updated.                                    *)
RECURSIVE readVariableLongLoop(_, _, _)
readVariableLongLoop(m, result, numBytes) ==
  LET again(s, anotherByte) ==
        IF anotherByte THEN readVariableLongLoop(s, s.val, numBytes + 1) ELSE s
      got(r) == IF r.val < 0 THEN Failed(r)
                ELSE again(ShiftIn(r, result, 7, r.val % 128),
                           (r.val \div 128) % 2 = 1)
  IN IF VarLongTooLong(numBytes)
     THEN Failed(m)
     ELSE got(readChunkByte(m))

(* MidiFileStream::readVariableLong *)
readVariableLong(m) == readVariableLongLoop(m, 0, 0)

(* truncLength with no room left for the terminator *)
TruncLengthWhole(length) ==
  IF length > EV_BUFFER_SIZE THEN EV_BUFFER_SIZE ELSE length

(* truncLength of readVariableBytes *)
TruncLength(length) ==
  IF length > EV_BUFFER_SIZE - 1 THEN EV_BUFFER_SIZE - 1 ELSE length

(* readVariableBytes: the loop that stores the truncated data.  One      *)
(* iteration is the body of the for loop, stored(r) being its part after *)
(* bint = readChunkByte(); a longer run of iterations is evaluated as    *)
(* its first half followed, unless that failed, by its second half.      *)
RECURSIVE storeLoop(_, _, _, _)
storeLoop(m, member, bytesRead, truncLength) ==
  LET stored(r) ==
        IF r.val < 0 THEN Failed(r)
        ELSE [BufWrite(r, member, bytesRead, r.val % 256)
                EXCEPT !.val = bytesRead + 1]
      rest(a, half) ==
        IF a.val < 0 THEN a ELSE storeLoop(a, member, half, truncLength)
      halves(half) == rest(storeLoop(m, member, bytesRead, half), half)
  IN IF bytesRead >= truncLength
     THEN [m EXCEPT !.val = bytesRead]
     ELSE IF truncLength - bytesRead = 1
     THEN stored(readChunkByte(m))
     ELSE halves((bytesRead + truncLength) \div 2)

(* readVariableBytes: the loop that skips the remaining data, evaluated  *)
(* in halves like storeLoop.                                             *)
RECURSIVE skipLoop(_, _, _)
skipLoop(m, bytesRead, length) ==
  LET skipped(r) == IF r.val < 0 THEN Failed(r) ELSE [r EXCEPT !.val = 0]
      rest(a, half) == IF a.val < 0 THEN a ELSE skipLoop(a, half, length)
      halves(half) == rest(skipLoop(m, bytesRead, half), half)
  IN IF bytesRead >= length
     THEN [m EXCEPT !.val = 0]
     ELSE IF length - bytesRead = 1
     THEN skipped(readChunkByte(m))
     ELSE halves(bytesRead + (length - bytesRead) \div 2)

(* MidiFileStream::readVariableBytes, pBuffer = _eventData.<member>.bytes. *)
(* stored(m1) is the function after the first loop, skipped(m3) after the  *)
(* second.                                                                 *)
readVariableBytes(m, length, member) ==
  LET skipped(m3) ==
        IF m3.val < 0 THEN m3 ELSE [m3 EXCEPT !.val = TruncLength(length)]
      stored(m1) ==
        IF m1.val < 0 THEN m1
        ELSE skipped(skipLoop(BufWrite(m1, member, m1.val, 0), m1.val, length))
  IN stored(storeLoop(BufWrite(m, member, 0, 0), member, 0, TruncLength(length)))

(* ------------------------------------------------------------------ *)
(* openChunk(), begin(), end()                                          *)
(* ------------------------------------------------------------------ *)
mthd == <<77, 84, 104, 100>>
mtrk == <<77, 84, 114, 107>>

(* return <value> *)
Return(m, v) == [m EXCEPT !.val = v]

(* openChunk: the loop that reads the chunk signature; val = -1 when    *)
(* read() failed, sig then has the failed read as its last element.     *)
(* got(s) is the body after bint = _pStream->read().                    *)
RECURSIVE sigLoop(_, _)
sigLoop(m, i) ==
  LET again(t, bint) == IF bint < 0 THEN Failed(t) ELSE sigLoop(t, i + 1)
      got(s) == again([s EXCEPT !.sig = Append(@, s.val % 256)], s.val)
  IN IF i >= 4
     THEN [m EXCEPT !.val = 0]
     ELSE got(StreamRead(m))

(* The classification that knows track chunks only *)
classifyTrackOnly(m1) ==
  IF m1.bl < 0 THEN Return(m1, CT_UNK)
  ELSE IF m1.sig = mtrk THEN Return(m1, CT_MTRK)
  ELSE Return(m1, CT_UNK)

(* openChunk: the classification of the chunk, its length being read *)
classify(m1) ==
  IF m1.bl < 0 THEN Return(m1, CT_UNK)
  ELSE IF m1.sig = mthd THEN Return(m1, CT_MTHD)
  ELSE IF m1.sig = mtrk THEN Return(m1, CT_MTRK)
  ELSE Return(m1, CT_UNK)

(* openChunk: _bytesLeft = readFixedLong(4), n0 being the reads made before *)
storeChunkLength(l, n0) ==
  [l EXCEPT !.bl = l.val, !.ckBase = l.taken, !.ckOpen = (l.val >= 0),
            !.ckLen = SubSeq(l.rd, n0 + 1, Len(l.rd))]

(* Every failure to read the signature taken for the end of the file *)
signatureReadAnyEnd(s) ==
  IF s.val < 0
  THEN Return([s EXCEPT !.ckBase = s.taken], CT_END)
  ELSE classify(storeChunkLength(readFixedLong([s EXCEPT !.bl = 4], 4),
                                 Len(s.rd)))

(* openChunk: after the signature loop *)
signatureRead(s) ==
  IF s.val < 0
  THEN Return([s EXCEPT !.ckBase = s.taken],
              IF Len(s.sig) = 1 THEN CT_END ELSE CT_UNK)
  ELSE classify(storeChunkLength(readFixedLong([s EXCEPT !.bl = 4], 4),
                                 Len(s.rd)))

(* openChunk with _runningStatus left as it was *)
openChunkKeepingStatus(m) ==
  signatureRead(sigLoop([m EXCEPT !.bl = -1, !.et = ET_UNK, !.dt = -1,
                                  !.sig = <<>>, !.ckOpen = FALSE, !.ckLen = <<>>,
                                  !.ckBase = m.taken],
                        0))

(* MidiFileStream::openChunk *)
openChunk(m) ==
  signatureRead(sigLoop([m EXCEPT !.bl = -1, !.rs = 0, !.et = ET_UNK, !.dt = -1,
                                  !.sig = <<>>, !.ckOpen = FALSE, !.ckLen = <<>>,
                                  !.ckBase = m.taken],
                        0))

(* begin: _format, _numTracks, _ticksPerBeat = (int) <the value just read> *)
storeFormat(f) == [f EXCEPT !.fmt = ToInt(f.val)]
storeTracks(n) == [n EXCEPT !.nt = ToInt(n.val)]
storeDivision(t) == [t EXCEPT !.tpb = ToInt(t.val)]

(* begin with no test of the division read *)
divisionReadUnchecked(m3) ==
  IF m3.bl > 0 THEN Return(m3, 0) ELSE Return(m3, 1)

(* begin: after _ticksPerBeat = (int) readFixedLong(2) *)
divisionRead(m3) ==
  IF m3.tpb < 0 THEN Return(m3, 0)
  ELSE IF m3.bl > 0 THEN Return(m3, 0)
  ELSE Return(m3, 1)

(* begin: after _numTracks = (int) readFixedLong(2) *)
tracksRead(m2) ==
  IF m2.nt < 0 THEN Return(m2, 0)
  ELSE divisionRead(storeDivision(readFixedLong(m2, 2)))

(* begin: after _format = (int) readFixedLong(2) *)
formatRead(m1) ==
  IF m1.fmt < 0 THEN Return(m1, 0)
  ELSE tracksRead(storeTracks(readFixedLong(m1, 2)))

(* begin: after chunkType = openChunk() *)
headerOpened(c) ==
  IF c.val # CT_MTHD THEN Return(c, 0)
  ELSE IF c.bl # 6 THEN Return(c, 0)
  ELSE formatRead(storeFormat(readFixedLong(c, 2)))

(* MidiFileStream::begin; returns 1 for true, 0 for false *)
begin(m) ==
  headerOpened(openChunk([m EXCEPT !.ps = TRUE, !.bl = -1, !.fmt = -1, !.nt = -1,
                                   !.tpb = 0, !.rs = 0, !.et = ET_UNK, !.dt = -1]))

(* MidiFileStream::end *)
end(m) ==
  [m EXCEPT !.ps = FALSE, !.bl = -1, !.fmt = -1, !.nt = -1, !.tpb = 0,
            !.rs = 0, !.et = ET_UNK, !.dt = -1, !.val = 0,
            !.ckBase = m.taken, !.ckOpen = FALSE, !.ckLen = <<>>]

(* ------------------------------------------------------------------ *)
(* readEvent()                                                          *)
(* ------------------------------------------------------------------ *)
(* A return that also resets the header fields, as end() does *)
ReturnEventEnding(m, t) ==
  [m EXCEPT !.et = t, !.val = t, !.fmt = -1, !.nt = -1, !.tpb = 0]

(* _eventType = t; return _eventType *)
ReturnEvent(m, t) == [m EXCEPT !.et = t, !.val = t]

(* return _eventType *)
ReturnType(m) == ReturnEvent(m, m.et)

(* (x & 0x80) != 0 *)
TopBitSet(x) == (x \div 128) % 2 = 1

(* 1 << bint on an int.  A negative count or one that moves the bit past  *)
(* the sign bit is undefined: "wrap" drops the bit that leaves the int,   *)
(* "mask" takes the count modulo the width of the int.  The bit moved     *)
(* into the sign bit gives the most negative int.                         *)
Shl1Undefined(bint) == bint < 0 \/ bint >= IntBits

Shl1(bint, ub) ==
  LET IntMin == (0 - Pow2(IntBits - 2)) - Pow2(IntBits - 2)
      k == IF ub = "mask" THEN bint % IntBits ELSE bint
  IN IF k >= 0 /\ k < IntBits - 1 THEN Pow2(k)
     ELSE IF k = IntBits - 1 THEN IntMin
     ELSE 0

(* numSharps = (int) bint; if ((numSharps & 0x80) != 0) numSharps |= -0x80: *)
(* the or keeps the low 7 bits and sets every bit from bit 7 upwards.       *)
SignExtend(bint) == IF TopBitSet(bint) THEN (bint % 128) - 128 ELSE bint

(* if (bint < 0) _eventType = ET_UNK;  with no return *)
noteFailure(r) == IF r.val < 0 THEN [r EXCEPT !.et = ET_UNK] ELSE r

(* The read with its failure not noted in _eventType *)
readIgnoringFailure(m) == readChunkByte(m)

(* bint = readChunkByte(); if (bint < 0) _eventType = ET_UNK;  with no return *)
readUnchecked(m) == noteFailure(readChunkByte(m))

(* _eventData.<member>.<field> = (int) bint *)
storeByte(r, member, field) == SetField(r, member, field, r.val)

(* bint = readChunkByte(); ...; _eventData.<member>.<field> = (int) bint *)
readField(m, member, field) == storeByte(readUnchecked(m), member, field)

(* length = readVariableLong() *)
storeLength(l) == [l EXCEPT !.length = l.val, !.lmark = Len(l.rd)]

(* _eventData.<member>.length = (int) readVariableBytes(...) *)
storeBufLength(v, member) == SetField(v, member, "length", ToInt(v.val))

(* if (_eventData.<member>.length < 0) the event is ET_UNK; return _eventType *)
bufferRead(m2, type) ==
  IF m2.ed.length < 0 THEN ReturnEvent(m2, ET_UNK) ELSE ReturnEvent(m2, type)

(* _runningStatus = 0, the first statement of a sysex and of a meta event *)
KeepRunningStatus(m) == m

ClearRunningStatus(m) == [m EXCEPT !.rs = 0]

(* Sysex F0 / F7: lines 287-338 *)
readSysex(m, bint) ==
  LET member == IF bint = 240 THEN "sysexF0" ELSE "sysexEsc"
      type == IF bint = 240 THEN ET_SYSEX_F0 ELSE ET_SYSEX_ESC
      lengthRead(m1) ==
        IF m1.length < 0 THEN ReturnEvent(m1, ET_UNK)
        ELSE bufferRead(
               storeBufLength(
                 readVariableBytes([m1 EXCEPT !.et = type], m1.length, member),
                 member),
               type)
  IN lengthRead(storeLength(readVariableLong(ClearRunningStatus(m))))

(* The text-shaped meta events 0x01..0x07: lines 393-517 *)
TextMember(metaType) ==
  CASE metaType = 1 -> "text" [] metaType = 2 -> "copyright"
    [] metaType = 3 -> "name" [] metaType = 4 -> "instrument"
    [] metaType = 5 -> "lyric" [] metaType = 6 -> "marker"
    [] OTHER -> "cue"

TextType(metaType) ==
  CASE metaType = 1 -> ET_TEXT [] metaType = 2 -> ET_COPYRIGHT
    [] metaType = 3 -> ET_NAME [] metaType = 4 -> ET_INSTRUMENT
    [] metaType = 5 -> ET_LYRIC [] metaType = 6 -> ET_MARKER
    [] OTHER -> ET_CUE

readMetaText(m, metaType, length) ==
  bufferRead(
    storeBufLength(
      readVariableBytes([m EXCEPT !.et = TextType(metaType)], length,
                        TextMember(metaType)),
      TextMember(metaType)),
    TextType(metaType))

(* case 0x00: Sequence Number *)
readSeqNum(m, length) ==
  LET numberRead(l) ==
        IF l.val < 0 THEN ReturnEvent(l, ET_UNK)
        ELSE ReturnType(SetField(l, "seqNum", "number", ToInt(l.val)))
  IN IF length # 2 THEN ReturnEvent(m, ET_UNK)
     ELSE numberRead(readFixedLong([m EXCEPT !.et = ET_SEQ_NUM], 2))

(* case 0x20: Midi Channel Prefix *)
readChanPrefix(m, length) ==
  LET chanRead(r) ==
        IF r.val < 0 THEN ReturnEvent(r, ET_UNK)
        ELSE ReturnType(SetField(r, "chanPrefix", "chan", r.val))
  IN IF length # 1 THEN ReturnEvent(m, ET_UNK)
     ELSE chanRead(readChunkByte([m EXCEPT !.et = ET_CHAN_PREFIX]))

(* End of Track with no test of its length *)
readEndTrackAnyLength(m, length) == ReturnEvent(m, ET_END_TRACK)

(* case 0x2F: End of Track *)
readEndTrack(m, length) ==
  IF length # 0 THEN ReturnEvent(m, ET_UNK)
  ELSE ReturnEvent(m, ET_END_TRACK)

(* case 0x51: Set Tempo *)
readTempo(m, length) ==
  LET tempoStored(m1) ==
        IF m1.ed.uSecPerBeat < 0 THEN ReturnEvent(m1, ET_UNK) ELSE ReturnType(m1)
  IN IF length # 3 THEN ReturnEvent(m, ET_UNK)
     ELSE tempoStored(storeByte(readFixedLong([m EXCEPT !.et = ET_TEMPO], 3),
                                "tempo", "uSecPerBeat"))

(* case 0x54: SMPTE Offset *)
readSmpteOffset(m, length) ==
  IF length # 5 THEN ReturnEvent(m, ET_UNK)
  ELSE ReturnType(
         readField(
           readField(
             readField(
               readField(
                 readField([m EXCEPT !.et = ET_SMPTE_OFFSET],
                           "smpteOffset", "hours"),
                 "smpteOffset", "minutes"),
               "smpteOffset", "seconds"),
             "smpteOffset", "frames"),
           "smpteOffset", "f100ths"))

(* _eventData.timeSign.denom = 1 << bint *)
storeDenom(r) ==
  [SetField(r, "timeSign", "denom", Shl1(r.val, r.ub))
     EXCEPT !.ubHit = @ \/ Shl1Undefined(r.val)]

(* case 0x58: Time Signature *)
readTimeSign(m, length) ==
  IF length # 4 THEN ReturnEvent(m, ET_UNK)
  ELSE ReturnType(
         readField(
           readField(
             storeDenom(
               readUnchecked(
                 readField([m EXCEPT !.et = ET_TIME_SIGN], "timeSign", "numer"))),
             "timeSign", "metro"),
           "timeSign", "m32nds"))

(* The byte stored as it was read *)
storeSharpsRaw(r) == SetField(r, "keySign", "numSharps", r.val)

(* _eventData.keySign.numSharps = (int) bint, sign-extended *)
storeSharps(r) == SetField(r, "keySign", "numSharps", SignExtend(r.val))

(* case 0x59: Key Signature *)
readKeySign(m, length) ==
  IF length # 2 THEN ReturnEvent(m, ET_UNK)
  ELSE ReturnType(
         readField(storeSharps(readUnchecked([m EXCEPT !.et = ET_KEY_SIGN])),
                   "keySign", "isMinor"))

(* default: Unknown Meta event; the loop that reads and drops its data,  *)
(* evaluated in halves like storeLoop.                                   *)
RECURSIVE dropLoop(_, _)
dropLoop(m, bytesLeft) ==
  LET dropped(r) == IF r.val < 0 THEN Failed(r) ELSE [r EXCEPT !.val = 0]
      rest(a, half) == IF a.val < 0 THEN a ELSE dropLoop(a, bytesLeft - half)
      halves(half) == rest(dropLoop(m, half), half)
  IN IF bytesLeft <= 0
     THEN [m EXCEPT !.val = 0]
     ELSE IF bytesLeft = 1
     THEN dropped(readChunkByte(m))
     ELSE halves(bytesLeft \div 2)

(* The data passed over by lowering the byte budget, with no read *)
readUnknownMetaSkipping(m, length) ==
  ReturnEvent([m EXCEPT !.bl = @ - length], ET_NO_OP)

(* case default: an unknown Meta event, its data read and dropped *)
readUnknownMeta(m, length) ==
  LET dropped(d) == IF d.val < 0 THEN ReturnEvent(d, ET_UNK) ELSE ReturnType(d)
  IN dropped(dropLoop([m EXCEPT !.et = ET_NO_OP], length))

(* metaType = readChunkByte() *)
storeMetaType(t) == [t EXCEPT !.metaType = t.val]

(* A Meta event: lines 340-780.  switch ((char) metaType) *)
readMeta(m) ==
  LET lengthRead(m2) ==
        IF m2.length < 0 THEN ReturnEvent(m2, ET_UNK)
        ELSE CASE m2.metaType = 0 -> readSeqNum(m2, m2.length)
               [] m2.metaType \in 1..7 -> readMetaText(m2, m2.metaType, m2.length)
               [] m2.metaType = 32 -> readChanPrefix(m2, m2.length)
               [] m2.metaType = 47 -> readEndTrack(m2, m2.length)
               [] m2.metaType = 81 -> readTempo(m2, m2.length)
               [] m2.metaType = 84 -> readSmpteOffset(m2, m2.length)
               [] m2.metaType = 88 -> readTimeSign(m2, m2.length)
               [] m2.metaType = 89 -> readKeySign(m2, m2.length)
               [] OTHER -> readUnknownMeta(m2, m2.length)
      typeRead(m1) ==
        IF m1.metaType < 0 THEN ReturnEvent(m1, ET_UNK)
        ELSE lengthRead(storeLength(readVariableLong(m1)))
  IN typeRead(storeMetaType(readChunkByte(ClearRunningStatus(m))))

(* Every channel opcode taken to have a second parameter *)
OneParamNever(code) == FALSE

(* Whether the channel opcode has no second parameter: line 821 *)
OneParam(code) == code = 12 \/ code = 13

(* A channel event that finds no running status kept *)
RunningStatusLost(m) == 0

(* The status byte a channel event uses when its first byte has the top  *)
(* bit clear: bint = _runningStatus (line 792)                           *)
RunningStatus(m) == m.rs

(* The status byte kept without its top bit *)
storeRunningLow(m, bint) == [m EXCEPT !.rs = bint % 128]

(* _runningStatus = bint *)
storeRunning(m, bint) == [m EXCEPT !.rs = bint]

(* A Channel event: lines 782-848.  first is the byte read after the     *)
(* delta-time, bint the status byte in use.                              *)
readChannel(m, first) ==
  LET running == ~TopBitSet(first)
      bint == IF running THEN RunningStatus(m) ELSE first
      param2Read(p2) ==
        IF p2.val < 0 THEN ReturnEvent(p2, ET_UNK)
        ELSE ReturnType(SetField(p2, "channel", "param2", p2.val))
      param1Stored(m3) ==
        IF OneParam(bint \div 16)
        THEN ReturnType(SetField(m3, "channel", "param2", 0))
        ELSE param2Read(readChunkByte(m3))
      param1Read(p1) ==
        IF p1.val < 0 THEN ReturnEvent(p1, ET_UNK)
        ELSE param1Stored(SetField(p1, "channel", "param1", p1.val))
      statusKept(m2) ==
        IF running THEN param1Read([m2 EXCEPT !.val = first])
        ELSE param1Read(readChunkByte(m2))
  IN IF running /\ ~TopBitSet(bint) THEN ReturnEvent(m, ET_UNK)
     ELSE statusKept(
            storeRunning(SetField(SetField([m EXCEPT !.et = ET_CHANNEL],
                                           "channel", "code", bint \div 16),
                                  "channel", "chan", bint % 16),
                         bint))

(* A delta-time that cannot be read, reported as an error *)
DeltaFailureAsError == ET_UNK

(* What readEvent returns when the delta-time cannot be read: lines 267-270 *)
DeltaFailure == ET_END

(* _eventDeltaTicks = readVariableLong() *)
storeDelta(d) == [d EXCEPT !.dt = d.val, !.mark = Len(d.rd)]

(* bint = readChunkByte(), the first byte of the event *)
storeStatus(b) == [b EXCEPT !.status = b.val]

(* MidiFileStream::readEvent *)
readEvent(m) ==
  LET statusRead(m2) ==
        IF m2.status < 0 THEN ReturnEvent(m2, ET_UNK)
        ELSE IF m2.status = 240 \/ m2.status = 247 THEN readSysex(m2, m2.status)
        ELSE IF m2.status = 255 THEN readMeta(m2)
        ELSE readChannel(m2, m2.status)
      deltaRead(m1) ==
        IF m1.dt < 0 THEN ReturnEvent(m1, DeltaFailure)
        ELSE statusRead(storeStatus(readChunkByte(m1)))
  IN deltaRead(storeDelta(readVariableLong([m EXCEPT !.et = ET_UNK])))

(* ------------------------------------------------------------------ *)
(* What the byte source delivers                                        *)
(* ------------------------------------------------------------------ *)
(* Bounds of the model. *)
MaxCalls == 3          \* read calls explored after a chunk header, "track" sources
MaxProbe == 1          \* read calls explored after a chunk header, other sources
MaxChunk == 10         \* the longest of the short chunks declared
MaxPayload == 200      \* the longest text or sysex payload delivered
MaxVlqChunk == 6       \* the chunk lengths 0..MaxVlqChunk of the "vlq" sources

(* The shortest variable-length encoding of x: 7 bits a byte, most       *)
(* significant group first, top bit set on all bytes but the last.       *)
RECURSIVE VlqHigh(_)
VlqHigh(y) ==
  IF y < 128 THEN <<128 + y>> ELSE VlqHigh(y \div 128) \o <<128 + (y % 128)>>

Vlq(x) == IF x < 128 THEN <<x>> ELSE VlqHigh(x \div 128) \o <<x % 128>>

(* n as 4 and as 2 big-endian bytes *)
Be4(n) == <<n \div 16777216, (n \div 65536) % 256, (n \div 256) % 256, n % 256>>
Be2(n) == <<(n \div 256) % 256, n % 256>>

(* n payload bytes *)
Fill(n) == [i \in 1..n |-> 1 + (i % 250)]

Prefixes(s) == {SubSeq(s, 1, k) : k \in 0..Len(s)}

NoteOn == <<144, 64, 127>>

Header(format, tracks, division) ==
  mthd \o Be4(6) \o Be2(format) \o Be2(tracks) \o Be2(division)

(* Events with a zero delta-time, delivered whole and cut at every byte. *)
CutEvents ==
  { <<0>> \o e : e \in
    { NoteOn, <<197, 5>>,
      <<255, 84, 5, 1, 2, 3, 4, 5>>, <<255, 88, 4, 6, 3, 24, 8>>,
      <<255, 89, 2, 253, 1>>, <<255, 1, 3, 97, 98, 99>>, <<240, 2, 1, 247>>,
      <<255, 81, 3, 7, 161, 32>>, <<255, 0, 2, 128, 1>>, <<255, 32, 1, 3>>,
      <<255, 127, 2, 170, 187>> } }

(* Events with a zero delta-time, delivered whole. *)
WholeEvents ==
  { <<0>> \o e : e \in
    { <<65, 0>>, <<6>>, <<209, 9>>, <<224, 0, 64>>, <<244, 1, 2>>,
      <<255, 47, 0>>, <<255, 47, 1, 9>>,
      <<255, 0, 2, 0, 7>>, <<255, 0, 1, 7>>, <<255, 32, 2, 3, 4>>,
      <<255, 81, 2, 7, 161>>, <<255, 84, 4, 1, 2, 3, 4>>,
      <<255, 88, 4, 4, 15, 24, 8>>, <<255, 88, 4, 4, 40, 24, 8>>,
      <<255, 88, 2, 4, 2>>, <<255, 89, 2, 2, 0>>, <<255, 89, 1, 2>>,
      <<255, 200, 0>>, <<255, 1, 0>>, <<255, 2, 1, 67>>, <<255, 3, 1, 70>>,
      <<255, 4, 1, 73>>, <<255, 5, 1, 75>>, <<255, 6, 1, 77>>, <<255, 7, 1, 81>>,
      <<247, 1, 5>>, <<240, 0>>,
      <<255, 1, 255, 255, 255, 255, 255>>, <<240, 129, 128, 128, 128, 0, 1>>,
      <<255, 47, 0, 0>>, <<255, 81, 3, 7, 161, 32, 0, 144>>,
      <<255, 89, 2, 2, 0, 9>>, <<255, 241, 1, 5, 0, 144>> } }

(* A read() that returns -1 in the middle of an event and bytes after it. *)
GapEvents ==
  { <<0, 255, 84, 5, 1, -1, 3, 4, 5>>, <<0, 255, 88, 4, 4, -1, 24, 8>>,
    <<0, 255, 89, 2, -1, 1>>, <<0, -1, 144, 64, 127>>, <<-1, 0, 144, 64, 127>> }

(* Delta-times of 5 and 6 bytes. *)
OddDeltas ==
  { <<129, 128, 128, 128, 0>>, <<143, 255, 255, 255, 127>>,
    <<255, 255, 255, 255, 255, 255>>, <<129, 128, 128, 128, 128, 0>> }

DeltaSamples ==
  {0, 1, 127, 128, 129, 8192, 16383, 16384, 1398101, 2097151, 2097152,
   89478485, 178956970, 268435454, 268435455}

(* Text and sysex events whose payload reaches the buffer size. *)
LongEvents ==
  { <<0>> \o e : e \in
    { <<255, 3>> \o Vlq(EV_BUFFER_SIZE - 2) \o Fill(EV_BUFFER_SIZE - 2),
      <<255, 5>> \o Vlq(EV_BUFFER_SIZE - 1) \o Fill(EV_BUFFER_SIZE - 1),
      <<247>> \o Vlq(EV_BUFFER_SIZE) \o Fill(EV_BUFFER_SIZE),
      <<240>> \o Vlq(MaxPayload) \o Fill(MaxPayload),
      <<255, 1>> \o Vlq(MaxPayload) \o Fill(MaxPayload),
      <<255, 127>> \o Vlq(MaxPayload) \o Fill(MaxPayload) } }

(* The same, the source ending inside the stored or the skipped part. *)
CutLongEvents ==
  { SubSeq(e, 1, Len(e) - k) : e \in LongEvents, k \in {1, 5} }

(* Short events read one after the other. *)
TrackEvents ==
  { <<0>> \o NoteOn, <<0, 65, 0>>, <<0, 197, 5>>, <<0, 6>>,
    <<0, 255, 47, 0>>, <<0, 255, 1, 0>>, <<0, 255, 127, 0>>,
    <<0, 240, 1, 7>>, <<0, 247, 0>>, <<>>, <<129>>,
    <<255, 255, 255, 255, 255, 255>> }

HeaderInputs ==
  CASE source = "file" ->
         Prefixes(Header(1, 2, 480))
         \cup { Header(f, 2, 480) : f \in {0, 2, 32767, 32768, 65535} }
         \cup { Header(1, t, 480) : t \in {0, 1, 32767, 32768, 65535} }
         \cup { Header(1, 2, d) : d \in {0, 1, 96, 32767, 32768, 59176} }
         \cup { Header(32767, 32767, 32767), Header(65535, 65535, 32767),
                mtrk \o Be4(6) \o Be2(1) \o Be2(2) \o Be2(480),
                <<77, 84, 104, 68>> \o Be4(6) \o Be2(1) \o Be2(2) \o Be2(480),
                mthd \o Be4(7) \o Be2(1) \o Be2(2) \o Be2(480) \o <<0>>,
                mthd \o Be4(5) \o Be2(1) \o Be2(2) \o Be2(480),
                mthd \o <<128, 0, 0, 6>> \o Be2(1) \o Be2(2) \o Be2(480),
                Header(1, 2, 480) \o <<0, 0>> }
    [] OTHER -> { Header(1, 2, 480) }

ChunkInputs ==
  CASE source = "track" ->
         { mtrk \o Be4(n) : n \in {0, 1, 4, MaxChunk} }
         \cup { <<>>, <<88, 77, 70, 33>> \o Be4(2),
                mtrk \o <<128, 0, 0, 5>>, mtrk \o <<255, 255, 255, 255>> }
    [] source = "kinds" ->
         { mtrk \o Be4(n) : n \in 0..MaxChunk } \cup { <<>> }
    [] source = "text" ->
         { mtrk \o Be4(n) : n \in {3, EV_BUFFER_SIZE, MaxPayload + 12} } \cup { <<>> }
    [] source = "vlq" ->
         { mtrk \o Be4(n) : n \in 0..MaxVlqChunk } \cup { <<>> }
    [] source = "file" ->
         { mtrk \o Be4(4), <<>> }
    [] source = "sign" ->
         { mtrk \o Be4(n) : n \in {6, 8, MaxChunk} } \cup { <<>> }
    [] OTHER ->
         Prefixes(mtrk \o Be4(4))
         \cup { mthd \o Be4(6), mtrk \o Be4(0), <<88, 77, 70, 33>> \o Be4(3),
                <<77, 84, 114, 75>> \o Be4(3),
                mtrk \o <<127, 255, 255, 255>>, mtrk \o <<128, 0, 0, 5>>,
                mtrk \o <<255, 255, 255, 255>>, mtrk \o <<1, 2, 3, 4>>,
                mtrk \o Be4(2) \o <<1, 2, 3>>,
                <<77, 84, -1, 107, 0, 0, 0, 2>>, mtrk \o <<0, 0, -1, 2>> }

EventInputs ==
  CASE source = "track" -> TrackEvents
    [] source = "kinds" ->
         UNION { Prefixes(e) : e \in CutEvents } \cup WholeEvents \cup GapEvents
         \cup { Vlq(128) \o NoteOn } \cup { d \o NoteOn : d \in OddDeltas }
    [] source = "text" ->
         LongEvents \cup CutLongEvents
         \cup { <<0>> \o NoteOn, <<0, 255, 1, 3, 97, 98, 99>>, <<0, 240, 1, 7>> }
    [] source = "vlq" ->
         { Vlq(x) \o NoteOn : x \in DeltaSamples }
         \cup { d \o NoteOn : d \in OddDeltas }
         \cup { <<0, 255, 1>> \o Vlq(2) \o <<97, 98>>, <<0, 240, 129, 0>> }
    [] source = "sign" ->
         { <<0, 255, 89, 2, b, mi>> : b \in 0..255, mi \in {0, 1} }
         \cup { <<0, 255, 88, 4, 6, r, 24, 8>> : r \in 0..255 }
         \cup { <<0, 255, 89, 2, 2, 200, 0>>, <<0, 255, 88, 4, 3, 2, 36, 8, 0>> }
    [] OTHER ->
         { <<0>> \o NoteOn, <<0, 255, 47, 0>>, <<0, 65, 0>>, <<0, 255, 81, 3, 7>> }

VarLongInputs ==
  CASE source = "vlq" ->
         UNION { Prefixes(Vlq(x)) : x \in DeltaSamples } \cup OddDeltas
         \cup { Vlq(x) \o <<5>> : x \in DeltaSamples }
         \cup { <<129, -1, 0>>, <<255, 255, 255, 127>>, <<255, 255, 255, 255, 127>>,
                <<128, 128, 128, 128, 1>>, <<128, 0>>, <<135, 255, 255, 255, 127>>,
                <<136, 128, 128, 128, 0>> }
    [] OTHER -> { <<129, 0>> }

FixedLongInputs ==
  CASE source = "chunks" -> Prefixes(<<1, 2, 3, 4>>) \cup {<<128, 0, 0, 0>>, <<255, 255>>}
    [] OTHER -> { <<1, 2>> }

FixedLongSizes == IF source = "chunks" THEN 1..4 ELSE {2}

ChunkByteInputs == IF source = "chunks" THEN {<<>>, <<7>>} ELSE {<<7>>}

(* ------------------------------------------------------------------ *)
(* The state machine                                                    *)
(* ------------------------------------------------------------------ *)
(* active is whether the call that read the chunk header met an active   *)
(* running status, failed and ended whether a readEvent() since then      *)
(* returned ET_UNK and ET_END.                                            *)
NoChunk ==
  [open |-> FALSE, len |-> <<>>, taken |-> 0, calls |-> 0,
   active |-> FALSE, failed |-> FALSE, ended |-> FALSE]

NoCall ==
  [arg |-> 0, inp |-> <<>>, src |-> <<>>, rd |-> <<>>, taken |-> 0, wmax |-> -1,
   mark |-> -1, status |-> -1, metaType |-> -1, length |-> -1, lmark |-> -1]

NoSummary ==
  [op |-> "none", ret |-> 0, bl |-> Indet, status |-> -1, code |-> -1, chan |-> -1,
   failed |-> FALSE, ended |-> FALSE]

(* What is kept of the call before a read call. *)
Summary ==
  [op |-> op, ret |-> ret, bl |-> _bytesLeft, status |-> obs.status,
   code |-> IF _eventData.member = "channel" THEN _eventData.code ELSE -1,
   chan |-> IF _eventData.member = "channel" THEN _eventData.chan ELSE -1,
   failed |-> chunk.failed, ended |-> chunk.ended]

(* The object as constructed: there is no constructor, so no field has a *)
(* value until begin() or end() gives it one.                            *)
InitObject ==
  /\ build \in {"avr", "arm"}
  /\ _pStream = FALSE
  /\ _bytesLeft = Indet
  /\ _format = Indet
  /\ _numTracks = Indet
  /\ _ticksPerBeat = Indet
  /\ _runningStatus = Indet
  /\ _eventType = Indet
  /\ _eventDeltaTicks = Indet
  /\ _eventData = Blank("none")
  /\ op = "new"
  /\ ret = 0
  /\ obs = NoCall
  /\ chunk = NoChunk
  /\ prev = NoSummary

Init == InitObject /\ source = "track"
InitKinds == InitObject /\ source = "kinds"
InitText == InitObject /\ source = "text"
InitFile == InitObject /\ source = "file"
InitVlq == InitObject /\ source = "vlq"
InitChunks == InitObject /\ source = "chunks"
InitSign == InitObject /\ source = "sign"

(* The state after a call that ended in m. *)
Done(m, name, arg) ==
  /\ build' = build
  /\ source' = source
  /\ _pStream' = m.ps
  /\ _bytesLeft' = m.bl
  /\ _format' = m.fmt
  /\ _numTracks' = m.nt
  /\ _ticksPerBeat' = m.tpb
  /\ _runningStatus' = m.rs
  /\ _eventType' = m.et
  /\ _eventDeltaTicks' = m.dt
  /\ _eventData' = m.ed
  /\ op' = name
  /\ ret' = m.val
  /\ obs' = [arg |-> arg, inp |-> m.all, src |-> m.src, rd |-> m.rd,
             taken |-> m.taken, wmax |-> m.wmax, mark |-> m.mark,
             status |-> m.status, metaType |-> m.metaType, length |-> m.length,
             lmark |-> m.lmark]
  /\ prev' = IF name \in {"begin", "end", "openChunk"} THEN NoSummary ELSE Summary
  /\ chunk' = IF m.ckBase >= 0
              THEN [open |-> m.ckOpen, len |-> m.ckLen,
                    taken |-> m.taken - m.ckBase, calls |-> 0,
                    active |-> _runningStatus \in 128..255,
                    failed |-> FALSE, ended |-> FALSE]
              ELSE [chunk EXCEPT
                      !.taken = @ + m.taken, !.calls = @ + 1,
                      !.failed = @ \/ (name = "readEvent" /\ m.val = ET_UNK),
                      !.ended = @ \/ (name = "readEvent" /\ m.val = ET_END)]

(* The ways the build may resolve the undefined arithmetic of a call     *)
(* that ends in m when overflows wrap.                                   *)
Resolutions(m) == IF m.ubHit THEN {"wrap", "mask"} ELSE {"wrap"}

(* Some call has given the fields their values. *)
Initialised == op # "new"

(* The read calls explored after a chunk header. *)
MayRead == chunk.calls < (IF source = "track" THEN MaxCalls ELSE MaxProbe)

(* The call ends as w when overflows wrap, as alt when the build resolves *)
(* its undefined arithmetic the other way.                               *)
Finish(w, alt, name, arg) ==
  \E ub \in Resolutions(w) : Done(IF ub = "wrap" THEN w ELSE alt, name, arg)

Begin ==
  \E inp \in HeaderInputs :
    Finish(begin(Obj(inp, "wrap")), begin(Obj(inp, "mask")), "begin", 0)

End == Done(end(Obj(<<>>, "wrap")), "end", 0)

OpenChunk ==
  /\ _pStream
  /\ \E inp \in ChunkInputs :
       Finish(openChunk(Obj(inp, "wrap")), openChunk(Obj(inp, "mask")),
              "openChunk", 0)

ReadEvent ==
  /\ Initialised
  /\ MayRead
  /\ \E inp \in EventInputs :
       Finish(readEvent(Obj(inp, "wrap")), readEvent(Obj(inp, "mask")),
              "readEvent", 0)

ReadVariableLong ==
  /\ Initialised
  /\ MayRead
  /\ \E inp \in VarLongInputs :
       Finish(readVariableLong(Obj(inp, "wrap")), readVariableLong(Obj(inp, "mask")),
              "readVariableLong", 0)

ReadFixedLong ==
  /\ Initialised
  /\ MayRead
  /\ \E inp \in FixedLongInputs, numBytes \in FixedLongSizes :
       Finish(readFixedLong(Obj(inp, "wrap"), numBytes),
              readFixedLong(Obj(inp, "mask"), numBytes),
              "readFixedLong", numBytes)

ReadChunkByte ==
  /\ Initialised
  /\ MayRead
  /\ \E inp \in ChunkByteInputs :
       Done(readChunkByte(Obj(inp, "wrap")), "readChunkByte", 0)

Next ==
  \/ Begin
  \/ End
  \/ OpenChunk
  \/ ReadEvent
  \/ ReadVariableLong
  \/ ReadFixedLong
  \/ ReadChunkByte

Spec == Init /\ [][Next]_vars
SpecKinds == InitKinds /\ [][Next]_vars
SpecText == InitText /\ [][Next]_vars
SpecFile == InitFile /\ [][Next]_vars
SpecVlq == InitVlq /\ [][Next]_vars
SpecChunks == InitChunks /\ [][Next]_vars
SpecSign == InitSign /\ [][Next]_vars

(* ------------------------------------------------------------------ *)
(* Properties                                                           *)
(* ------------------------------------------------------------------ *)
ReadOps == {"readEvent", "readVariableLong", "readFixedLong", "readChunkByte"}

(* v <= L, L being the declared chunk length whose four bytes are len.  *)
(* A length of 2^31 or more is above every value of a long.             *)
WithinDeclared(v, len) ==
  len[1] >= 128
  \/ v <= ((len[1] * 256 + len[2]) * 256 + len[3]) * 256 + len[4]

C2_RunningStatusReuse ==
  (/\ op = "readEvent"
   /\ prev.op = "readEvent"
   /\ prev.ret = ET_CHANNEL
   /\ obs.status \in 0..127)
  => LET S == prev.code * 16 + prev.chan
         more == SubSeq(obs.rd, obs.mark + 2, Len(obs.rd))
     IN /\ _eventData.member = "channel"
        /\ _eventData.code = S \div 16
        /\ _eventData.chan = S % 16
        /\ _eventData.param1 = obs.status
        /\ _runningStatus = S
        /\ IF S \div 16 \in {12, 13}
           THEN more = <<>> /\ ret = ET_CHANNEL /\ _eventData.param2 = 0
           ELSE /\ Len(more) = 1
                /\ IF more[1] >= 0
                   THEN ret = ET_CHANNEL /\ _eventData.param2 = more[1]
                   ELSE ret = ET_UNK

(* Note-on 0x90, then the bytes 0x41 0x00 with no status byte. *)
C2_Witness ==
  /\ op = "readEvent"
  /\ prev.op = "readEvent"
  /\ prev.ret = ET_CHANNEL
  /\ prev.status = 144
  /\ obs.status = 65
  /\ ret = ET_CHANNEL
  /\ _eventData = [member |-> "channel", code |-> 9, chan |-> 0,
                   param1 |-> 65, param2 |-> 0]

(* C3: after a readEvent() that met a meta event (0xFF, any type) or a  *)
(* sysex event (0xF0, 0xF7), an event whose first byte has the top bit  *)
(* clear makes readEvent() return ET_UNK, and running status stays      *)
(* inactive.                                                            *)
C3_MetaSysexClearRunningStatus ==
  (/\ op = "readEvent"
   /\ prev.op = "readEvent"
   /\ prev.status \in {240, 247, 255}
   /\ obs.status \in 0..127)
  => /\ ret = ET_UNK
     /\ _eventType = ET_UNK
     /\ _runningStatus = 0
     /\ Len(obs.rd) = obs.mark + 1

(* An unknown meta event, then a data byte where a status byte is due. *)
C3_Witness ==
  /\ op = "readEvent"
  /\ prev.op = "readEvent"
  /\ prev.status = 255
  /\ prev.ret = ET_NO_OP
  /\ obs.status = 65
  /\ ret = ET_UNK
  /\ _runningStatus = 0

(* C5: readEvent() called with a byte budget of 0 returns ET_END and    *)
(* takes no byte from the byte source; the meta event 0xFF 0x2F 0x00    *)
(* returns ET_END_TRACK, not ET_END; when it used up the chunk, the     *)
(* next readEvent() returns ET_END.                                     *)
C5_EndOfTrack ==
  /\ (op = "readEvent" /\ prev.bl = 0) =>
       (ret = ET_END /\ obs.taken = 0 /\ obs.src = <<>> /\ _bytesLeft = 0)
  /\ (op = "readEvent" /\ obs.status = 255 /\ obs.metaType = 47 /\ obs.length = 0) =>
       (ret = ET_END_TRACK /\ ret # ET_END)
  /\ (op = "readEvent" /\ prev.op = "readEvent" /\ prev.ret = ET_END_TRACK
      /\ prev.bl = 0) => ret = ET_END

(* End of Track as the last event of the chunk, then the end of the chunk. *)
C5_Witness ==
  /\ op = "readEvent"
  /\ prev.op = "readEvent"
  /\ prev.ret = ET_END_TRACK
  /\ prev.bl = 0
  /\ chunk.open
  /\ ret = ET_END
  /\ obs.taken = 0

(* C6: readEvent() returns ET_END only when the byte budget is 0 at the *)
(* start of the call; with at least one byte left in the chunk a        *)
(* failure is reported as ET_UNK, not as ET_END.                        *)
C6_EndOnlyAtBudgetZero ==
  (op = "readEvent" /\ prev.bl > 0) => ret # ET_END

(* C4: when a read of the event body fails after the delta-time was     *)
(* decoded, whatever the kind of event, readEvent() returns ET_UNK and  *)
(* getEventType() is ET_UNK.                                            *)
C4_PartialEventIsUnk ==
  (/\ op = "readEvent"
   /\ _eventDeltaTicks >= 0
   /\ \E i \in (obs.mark + 1)..Len(obs.rd) : obs.rd[i] < 0)
  => (ret = ET_UNK /\ _eventType = ET_UNK)

(* An SMPTE offset whose second byte the source fails to deliver: the   *)
(* five reads are made all the same.                                    *)
C4_Witness ==
  /\ op = "readEvent"
  /\ obs.metaType = 84
  /\ obs.length = 5
  /\ Len(obs.rd) = obs.lmark + 5
  /\ obs.rd[obs.lmark + 2] < 0
  /\ obs.rd[obs.lmark + 5] >= 0
  /\ ret = ET_UNK

(* The payload that readEvent() was offered, when all of it is there:   *)
(* the declared length fits in the chunk and the source delivers it.    *)
PayloadOffered ==
  /\ obs.length >= 0
  /\ obs.lmark >= 0
  /\ obs.length <= prev.bl - obs.lmark
  /\ obs.length <= Len(obs.inp) - obs.lmark
  /\ \A i \in 1..Len(obs.inp) : obs.inp[i] >= 0

(* C7: for a text-shaped meta event or a sysex event of declared length *)
(* n that fits in the chunk, readEvent() stores min(n, 140) payload     *)
(* bytes and a null terminator, reports the length min(n, 140), writes  *)
(* at no buffer index above 140, and takes n payload bytes from the     *)
(* stream, the budget dropping by n.                                    *)
C7_BoundedBufferRead ==
  /\ EV_BUFFER_SIZE - 1 = 140
  /\ op = "readEvent" => obs.wmax <= 140
  /\ (/\ op = "readEvent"
      /\ obs.status \in {240, 247} \/ (obs.status = 255 /\ obs.metaType \in 1..7)
      /\ PayloadOffered)
     => LET n == obs.length
            k == IF n > 140 THEN 140 ELSE n
        IN /\ ret \notin {ET_UNK, ET_END}
           /\ _eventData.length = k
           /\ _eventData.bytes = [i \in 1..k |-> obs.inp[obs.lmark + i]] \o <<0>>
           /\ obs.taken = obs.lmark + n
           /\ _bytesLeft = prev.bl - obs.lmark - n

(* A text event longer than the buffer. *)
C7_Witness ==
  /\ op = "readEvent"
  /\ ret = ET_TEXT
  /\ PayloadOffered
  /\ obs.length = MaxPayload
  /\ _eventData.length = 140
  /\ Len(_eventData.bytes) = 141
  /\ obs.wmax = 140
  /\ _bytesLeft = prev.bl - obs.lmark - MaxPayload

(* C8: readVariableLong() returns -1 for every quantity not terminated  *)
(* within 4 bytes, so every result is below 2^28.                       *)
C8_RejectsBeyondFourBytes ==
  (op = "readVariableLong" /\ ret >= 0) => (Len(obs.rd) <= 4 /\ ret < 2 ^ 28)

(* s starts with t *)
StartsWith(s, t) == Len(s) >= Len(t) /\ SubSeq(s, 1, Len(t)) = t

(* C9: readVariableLong() applied to the shortest encoding of x, for x  *)
(* in 0..2^28-1, with enough budget, returns x and takes the bytes of   *)
(* the encoding from the chunk, and no other.                           *)
C9_VlqRoundTrip ==
  \A x \in DeltaSamples :
    /\ x \in 0..(2 ^ 28 - 1)
    /\ (/\ op = "readVariableLong"
        /\ StartsWith(obs.inp, Vlq(x))
        /\ prev.bl >= Len(Vlq(x)))
       => /\ ret = x
          /\ obs.rd = Vlq(x)
          /\ obs.taken = Len(Vlq(x))
          /\ _bytesLeft = prev.bl - Len(Vlq(x))

(* The largest quantity, four bytes long, with a byte after it. *)
C9_Witness ==
  /\ op = "readVariableLong"
  /\ obs.inp = <<255, 255, 255, 127, 5>>
  /\ ret = 2 ^ 28 - 1
  /\ obs.taken = 4

(* The call was begin() on a source that starts with "MThd", the length *)
(* 6 and three 16-bit fields, the division in ticks per quarter note.   *)
HeaderOffered ==
  /\ op = "begin"
  /\ Len(obs.inp) >= 14
  /\ SubSeq(obs.inp, 1, 8) = <<77, 84, 104, 100, 0, 0, 0, 6>>
  /\ \A i \in 9..14 : obs.inp[i] \in 0..255
  /\ obs.inp[13] < 128

(* begin() returned true, with the three fields, 14 bytes taken and no  *)
(* byte left in the chunk.                                              *)
HeaderRoundTrip ==
  /\ ret = 1
  /\ _format = obs.inp[9] * 256 + obs.inp[10]
  /\ _numTracks = obs.inp[11] * 256 + obs.inp[12]
  /\ _ticksPerBeat = obs.inp[13] * 256 + obs.inp[14]
  /\ obs.taken = 14
  /\ _bytesLeft = 0

(* C10 as stated: any format value, any track count. *)
C10_AnyFieldValue == HeaderOffered => HeaderRoundTrip

(* C10: for a format value and a track count in 0..0x7FFF and a         *)
(* division in ticks per quarter note, begin() returns true, the three  *)
(* getters return the field values, 14 bytes were taken and             *)
(* getChunkBytesLeft() is 0.                                            *)
C10_HeaderRoundTrip ==
  (HeaderOffered /\ obs.inp[9] < 128 /\ obs.inp[11] < 128) => HeaderRoundTrip

(* The largest fields, where int has 16 bits. *)
C10_Witness ==
  /\ build = "avr"
  /\ HeaderOffered
  /\ ret = 1
  /\ _format = 32767
  /\ _numTracks = 32767
  /\ _ticksPerBeat = 32767

(* The source of the last call does not start with a whole header       *)
(* chunk: fewer than 14 bytes, a read that fails among them, a          *)
(* signature other than "MThd", or a declared length other than 6.      *)
NoWholeHeader ==
  \/ Len(obs.inp) < 14
  \/ \E i \in 1..14 : obs.inp[i] < 0
  \/ SubSeq(obs.inp, 1, 4) # <<77, 84, 104, 100>>
  \/ SubSeq(obs.inp, 5, 8) # <<0, 0, 0, 6>>

(* C11: begin() returns false when the first chunk of the byte source   *)
(* is not a header chunk (empty source, truncated chunk header, "MTrk"  *)
(* or another signature), when its declared length is not 6, and when   *)
(* the source ends before the three 2-byte fields were read.            *)
C11_BeginFails ==
  (op = "begin" /\ NoWholeHeader) => ret = 0

(* The source ends inside the division field, the thirteenth byte read. *)
C11_Witness ==
  /\ op = "begin"
  /\ obs.inp = <<77, 84, 104, 100, 0, 0, 0, 6, 0, 1, 0, 2, 1>>
  /\ obs.taken = 13
  /\ _format = 1
  /\ _numTracks = 2
  /\ ret = 0

(* C12: begin() returns false for every header whose division field has *)
(* its top bit set, the SMPTE frames-per-second form; it never succeeds *)
(* with such a value returned by getTicksPerBeat().                     *)
C12_SmpteDivisionRejected ==
  /\ (/\ op = "begin"
      /\ ~NoWholeHeader
      /\ obs.inp[13] >= 128) => ret = 0
  /\ (op = "begin" /\ ret = 1) => _ticksPerBeat < 32768

(* C13: after begin() returns true, getFormat() is 0 (single track), 1  *)
(* (simultaneous tracks) or 2 (sequential tracks).                      *)
C13_FormatIsKnown ==
  (op = "begin" /\ ret = 1) => _format \in {0, 1, 2}

(* C14: after begin() returned true, no openChunk() and no readEvent(), *)
(* whatever it returns, changes what getFormat(), getNumTracks() and    *)
(* getTicksPerBeat() return.                                            *)
C14_HeaderFieldsKept ==
  [][op' \in {"openChunk", "readEvent"} =>
       /\ _format' = _format
       /\ _numTracks' = _numTracks
       /\ _ticksPerBeat' = _ticksPerBeat]_vars

(* The fields of the header after a track chunk was opened and two      *)
(* events were read from it, the second one in error.                   *)
C14_Witness ==
  /\ op = "readEvent"
  /\ prev.op = "readEvent"
  /\ prev.ret = ET_CHANNEL
  /\ ret = ET_UNK
  /\ chunk.open
  /\ _format = 1
  /\ _numTracks = 2
  /\ _ticksPerBeat = 480

(* The call was openChunk() on a source with at least 8 bytes to give. *)
ChunkHeaderOffered ==
  /\ op = "openChunk"
  /\ Len(obs.inp) >= 8
  /\ \A i \in 1..8 : obs.inp[i] \in 0..255

(* openChunk() took 8 bytes, told the chunk by its signature and set    *)
(* the byte budget to the big-endian value of the last four bytes.      *)
ChunkOpened ==
  /\ obs.taken = 8
  /\ Len(obs.src) = 8
  /\ ret = (IF SubSeq(obs.inp, 1, 4) = <<77, 84, 104, 100>> THEN CT_MTHD
            ELSE IF SubSeq(obs.inp, 1, 4) = <<77, 84, 114, 107>> THEN CT_MTRK
            ELSE CT_UNK)
  /\ _bytesLeft >= 0
  /\ Be4(_bytesLeft) = SubSeq(obs.inp, 5, 8)

(* C15 as stated: any declared length. *)
C15_AnyDeclaredLength == ChunkHeaderOffered => ChunkOpened

(* C15: with at least 8 bytes available and a declared length below     *)
(* 2^31, openChunk() takes exactly 8 bytes, returns CT_MTHD for "MThd", *)
(* CT_MTRK for "MTrk" and CT_UNK for any other signature, and sets      *)
(* getChunkBytesLeft() to the big-endian value of the last four bytes.  *)
C15_OpenChunkReadsHeader ==
  (ChunkHeaderOffered /\ obs.inp[5] < 128) => ChunkOpened

(* An unknown chunk of 3 bytes. *)
C15_Witness ==
  /\ op = "openChunk"
  /\ obs.inp = <<88, 77, 70, 33, 0, 0, 0, 3>>
  /\ ret = CT_UNK
  /\ obs.taken = 8
  /\ _bytesLeft = 3

(* C16: openChunk() returns CT_END if and only if the byte source is at *)
(* its end before the first byte of the signature; when the source      *)
(* ends after 1 to 7 bytes of the chunk header it returns CT_UNK; in    *)
(* both cases getChunkBytesLeft() is -1 and a following readEvent()     *)
(* reads nothing.                                                       *)
C16_EndOfSource ==
  /\ op = "openChunk" =>
       /\ Len(obs.src) \in 1..8
       /\ (ret = CT_END) <=> (obs.src[1] < 0)
       /\ (Len(obs.src) >= 2 /\ obs.src[Len(obs.src)] < 0) => ret = CT_UNK
       /\ obs.src[Len(obs.src)] < 0 => (_bytesLeft = -1 /\ ~chunk.open)
  /\ (op = "readEvent" /\ prev.op = "openChunk" /\ prev.bl = -1) =>
       (obs.src = <<>> /\ obs.taken = 0 /\ _bytesLeft = -1)

(* The source ended inside the length of the chunk, then readEvent(). *)
C16_Witness ==
  /\ op = "readEvent"
  /\ prev.op = "openChunk"
  /\ prev.ret = CT_UNK
  /\ prev.bl = -1
  /\ chunk.len = <<0, 0, -1>>
  /\ obs.src = <<>>
  /\ obs.taken = 0

(* The payload size of the meta events of fixed shape. *)
FixedSize(metaType) ==
  CASE metaType = 0 -> 2
    [] metaType = 32 -> 1
    [] metaType = 47 -> 0
    [] metaType = 81 -> 3
    [] metaType = 84 -> 5
    [] metaType = 88 -> 4
    [] metaType = 89 -> 2

(* C17: for the meta events of fixed shape (0x00, 0x20, 0x2F, 0x51,     *)
(* 0x54, 0x58, 0x59), a declared length other than the expected size    *)
(* makes readEvent() return ET_UNK with no payload byte read; with the  *)
(* expected size never more than that many payload bytes are read, and  *)
(* exactly that many are taken when the chunk and the source have them. *)
C17_FixedShapeLength ==
  (/\ op = "readEvent"
   /\ obs.status = 255
   /\ obs.metaType \in {0, 32, 47, 81, 84, 88, 89}
   /\ obs.length >= 0)
  => IF obs.length # FixedSize(obs.metaType)
     THEN /\ ret = ET_UNK
          /\ Len(obs.rd) = obs.lmark
          /\ obs.taken = obs.lmark
     ELSE /\ Len(obs.rd) <= obs.lmark + obs.length
          /\ PayloadOffered =>
               /\ ret \notin {ET_UNK, ET_END}
               /\ Len(obs.rd) = obs.lmark + obs.length
               /\ obs.taken = obs.lmark + obs.length
               /\ _bytesLeft = prev.bl - obs.lmark - obs.length

(* A tempo event of 3 bytes with bytes after it in the chunk. *)
C17_Witness ==
  /\ op = "readEvent"
  /\ obs.inp = <<0, 255, 81, 3, 7, 161, 32, 0, 144>>
  /\ ret = ET_TEMPO
  /\ _eventData.uSecPerBeat = 500000
  /\ obs.taken = 7
  /\ _bytesLeft = prev.bl - 7
  /\ _bytesLeft > 0

(* C18: a channel event with opcode 0xC (program change) or 0xD         *)
(* (channel aftertouch) has one data byte: readEvent() sets param2 to 0 *)
(* and reads 2 bytes after the delta-time when the status byte is       *)
(* there, 1 under running status; every other channel opcode reads 3    *)
(* bytes after the delta-time, 2 under running status.                  *)
C18_ChannelDataBytes ==
  (op = "readEvent" /\ ret = ET_CHANNEL)
  => LET after == Len(obs.rd) - obs.mark
         short == IF obs.status < 128 THEN 1 ELSE 0
     IN /\ _eventData.member = "channel"
        /\ obs.taken = Len(obs.rd)
        /\ _bytesLeft = prev.bl - Len(obs.rd)
        /\ IF _eventData.code \in {12, 13}
           THEN _eventData.param2 = 0 /\ after = 2 - short
           ELSE after = 3 - short

(* A program change under running status: one byte after the delta-time. *)
C18_Witness ==
  /\ op = "readEvent"
  /\ prev.op = "readEvent"
  /\ prev.status = 197
  /\ obs.status = 6
  /\ ret = ET_CHANNEL
  /\ _eventData = [member |-> "channel", code |-> 12, chan |-> 5,
                   param1 |-> 6, param2 |-> 0]
  /\ Len(obs.rd) = obs.mark + 1
  /\ obs.taken = 2

(* C19: whenever readEvent() returns ET_CHANNEL, the code is one of the *)
(* channel-voice opcodes 0x8..0xE and chan is in 0..15, whatever the    *)
(* status byte (0xF1..0xF6 and 0xF8..0xFE included).                    *)
C19_ChannelCodeIsVoice ==
  (op = "readEvent" /\ ret = ET_CHANNEL)
  => (_eventData.code \in 8..14 /\ _eventData.chan \in 0..15)

(* C20: for a meta event of a type other than 0x00..0x07, 0x20, 0x2F,   *)
(* 0x51, 0x54, 0x58, 0x59 whose declared length n fits in the chunk,    *)
(* readEvent() returns ET_NO_OP, reads the n payload bytes one by one   *)
(* and the byte budget drops by n; when the chunk ends before the n     *)
(* bytes it returns ET_UNK.                                             *)
C20_UnknownMetaDropped ==
  (/\ op = "readEvent"
   /\ obs.status = 255
   /\ obs.metaType \in 0..255
   /\ obs.metaType \notin (0..7) \cup {32, 47, 81, 84, 88, 89}
   /\ obs.length >= 0)
  => /\ PayloadOffered =>
          /\ ret = ET_NO_OP
          /\ _eventType = ET_NO_OP
          /\ Len(obs.rd) = obs.lmark + obs.length
          /\ obs.taken = obs.lmark + obs.length
          /\ _bytesLeft = prev.bl - obs.lmark - obs.length
     /\ obs.length > prev.bl - obs.lmark =>
          /\ ret = ET_UNK
          /\ _eventType = ET_UNK
          /\ obs.taken <= prev.bl

(* An unknown meta event of 1 byte with bytes after it in the chunk. *)
C20_Witness ==
  /\ op = "readEvent"
  /\ obs.inp = <<0, 255, 241, 1, 5, 0, 144>>
  /\ ret = ET_NO_OP
  /\ obs.taken = 5
  /\ _bytesLeft = prev.bl - 5
  /\ _bytesLeft > 0

(* C21: once readEvent() has returned ET_UNK, no later readEvent() on   *)
(* the same chunk returns a decoded event: each returns ET_UNK or       *)
(* ET_END.                                                              *)
C21_FailureIsTerminal ==
  (op = "readEvent" /\ prev.failed) => ret \in {ET_UNK, ET_END}

(* The declared length of the open chunk, a value below 2^31. *)
DeclaredLength ==
  ((chunk.len[1] * 256 + chunk.len[2]) * 256 + chunk.len[3]) * 256 + chunk.len[4]

(* C22: while a chunk of declared length L is open, L minus             *)
(* getChunkBytesLeft() is the number of bytes taken from the byte       *)
(* source since the chunk header was read, also when the source         *)
(* reports its end before L bytes were delivered.                       *)
C22_BudgetAccounting ==
  chunk.open => DeclaredLength - _bytesLeft = chunk.taken

(* C23: for every first payload byte b in 0..255 of a key signature     *)
(* (length 2), keySign.numSharps is b when b < 128 and b - 256          *)
(* otherwise, and keySign.isMinor is the second byte.                   *)
C23_KeySignature ==
  (/\ op = "readEvent"
   /\ obs.status = 255
   /\ obs.metaType = 89
   /\ obs.length = 2
   /\ PayloadOffered)
  => LET b == obs.inp[obs.lmark + 1]
     IN /\ ret = ET_KEY_SIGN
        /\ _eventData.member = "keySign"
        /\ _eventData.numSharps = (IF b < 128 THEN b ELSE b - 256)
        /\ _eventData.isMinor = obs.inp[obs.lmark + 2]

(* Three flats, minor: the byte 0xFD. *)
C23_Witness ==
  /\ op = "readEvent"
  /\ obs.inp = <<0, 255, 89, 2, 253, 1>>
  /\ ret = ET_KEY_SIGN
  /\ _eventData = [member |-> "keySign", numSharps |-> -3, isMinor |-> 1]

(* C24: for every denominator byte r in 0..255 of a time signature      *)
(* (length 4), timeSign.denom is 2^r, a positive power of two, and      *)
(* numer, metro and m32nds are the 1st, 3rd and 4th payload bytes.  No  *)
(* int of the model holds 2^r for r above 30.                           *)
C24_TimeSignature ==
  (/\ op = "readEvent"
   /\ obs.status = 255
   /\ obs.metaType = 88
   /\ obs.length = 4
   /\ PayloadOffered)
  => LET r == obs.inp[obs.lmark + 2]
     IN /\ ret = ET_TIME_SIGN
        /\ _eventData.member = "timeSign"
        /\ _eventData.numer = obs.inp[obs.lmark + 1]
        /\ r <= 30
        /\ _eventData.denom = 2 ^ r
        /\ _eventData.denom > 0
        /\ _eventData.metro = obs.inp[obs.lmark + 3]
        /\ _eventData.m32nds = obs.inp[obs.lmark + 4]

(* C25: once a call has given the fields their values, the stored       *)
(* running status is 0 (inactive) or a byte with its top bit set        *)
(* (0x80..0xFF), never a data byte, whatever the stream delivers and    *)
(* whichever calls fail.                                                *)
C25_RunningStatusIsStatus ==
  Initialised => (_runningStatus = 0 \/ _runningStatus \in 128..255)

(* A program change kept as running status by an event that started    *)
(* with a data byte.                                                    *)
C25_Witness ==
  /\ op = "readEvent"
  /\ prev.op = "readEvent"
  /\ prev.status = 197
  /\ obs.status \in 1..127
  /\ ret = ET_CHANNEL
  /\ _runningStatus = 197

(* C26: every openChunk(), whatever it returns, makes running status    *)
(* inactive and resets the current event to ET_UNK with delta ticks     *)
(* -1, so a first event of a chunk that starts with a data byte returns *)
(* ET_UNK even if a channel event came before the chunk.                *)
C26_OpenChunkClearsStatus ==
  /\ op = "openChunk" =>
       /\ _runningStatus = 0
       /\ _eventType = ET_UNK
       /\ _eventDeltaTicks = -1
  /\ (op = "readEvent" /\ prev.op = "openChunk" /\ obs.status \in 0..127) =>
       (ret = ET_UNK /\ _runningStatus = 0)

(* A chunk opened with running status active, and a first event that    *)
(* starts with a data byte.                                             *)
C26_Witness ==
  /\ op = "readEvent"
  /\ prev.op = "openChunk"
  /\ prev.ret = CT_MTRK
  /\ chunk.active
  /\ obs.status = 65
  /\ ret = ET_UNK
  /\ _runningStatus = 0

(* C27: in an open chunk every readEvent() that does not return ET_END  *)
(* lowers getChunkBytesLeft() by at least 1, and once a readEvent() has *)
(* returned ET_END every later readEvent() of the chunk returns ET_END  *)
(* without taking a byte.                                               *)
C27_TrackReadingTerminates ==
  /\ (op = "readEvent" /\ chunk.open /\ ret # ET_END) =>
       _bytesLeft <= prev.bl - 1
  /\ (op = "readEvent" /\ prev.ended) =>
       (ret = ET_END /\ obs.taken = 0)

====
